---- MODULE Spec2Model ----
(***************************************************************************)
(* Model of the RACI agent swarm: the wire envelope, the per-agent bus     *)
(* consume loop (RaciAgent / KafkaHandler), the conversation cache         *)
(* (RedisHandler), the orchestrator (SwarmMaster), the specialists         *)
(* (OpenAIRaciAgent) and the user proxy (UserProxyAgent).                  *)
(*                                                                         *)
(* Strings of the program are modelled as sequences of tokens, so the      *)
(* empty string is <<>>.  Optional values use the token "None".            *)
(***************************************************************************)
EXTENDS Naturals, Integers, Sequences, FiniteSets, TLC

VARIABLES
    agent_vos,       \* SwarmMaster.agent_vos: sequence of [identifier, raci_role]
    proxy,           \* SwarmMaster.proxy ("None" until the first routing turn)
    topics,          \* the bus: agent name -> queue of wire envelopes (topic-{name})
    cache,           \* Redis: key -> serialized conversation
    pending,         \* Redis: the pending-{conversation_id} keys the proxy wrote
    alive,           \* agent name -> is its run_kafka thread still looping
    clock,           \* datetime.now()
    uuids,           \* number of uuid4() values drawn so far
    lastTurn,        \* what the most recent handler received and did, in order
    selection,       \* the most recent _identify_next_agent call and its result
    registry_valid,  \* result of _is_valid_swarm_vo_structure ("unset" before)
    swarm_started,   \* result of SwarmMaster.__init__ ("unset" before)
    call,            \* the most recent call of a client method: inputs and result
    kafka            \* KafkaHandler of one agent: connection and consume thread

vars == <<agent_vos, proxy, topics, cache, pending, alive, clock, uuids,
          lastTurn, selection, registry_valid, swarm_started, call, kafka>>

(***************************************************************************)
(* Bounds of the model.                                                    *)
(***************************************************************************)
MaxClock == 5       \* handler runs and foreign envelopes explored
MaxConvs == 1       \* POST /conversation requests explored
MaxAgents == 3      \* longest agent list given to the swarm validators
MaxMsgs == 2        \* longest conversation given to the codec
MaxConnects == 3    \* calls of setup_connection explored
MaxToolCalls == 3   \* most tool calls in one completion

(***************************************************************************)
(* Identities.                                                             *)
(***************************************************************************)
SwarmName == "swarm"
ProxyName == "p"
Specialists == {"writer", "editor"}
Users == {"u1"}
Names == {SwarmName, ProxyName} \cup Specialists
Addressees == Names \cup Users      \* everything a topic-{x} may be built from
None == "None"

RaciRoles == {"r", "R", "a", "A", "c"}

\* the swarm descriptors the orchestrator is run with
SwarmWithoutProxy ==
    << [identifier |-> "writer", raci_role |-> "r"],
       [identifier |-> "editor", raci_role |-> "a"] >>
SwarmWithProxy ==
    << [identifier |-> "p", raci_role |-> "A"],
       [identifier |-> "writer", raci_role |-> "R"],
       [identifier |-> "editor", raci_role |-> "c"] >>
Swarms == {SwarmWithoutProxy, SwarmWithProxy}

(***************************************************************************)
(* Data model: model/protocol.py                                           *)
(***************************************************************************)
Message(content, role, name, pending_user_reply, datetime_value) ==
    [content |-> content, role |-> role, name |-> name,
     pending_user_reply |-> pending_user_reply,
     datetime_value |-> datetime_value]

Header(user_id, conversation_id, sender) ==
    [user_id |-> user_id, conversation_id |-> conversation_id, sender |-> sender]

Conversation(header, messages) == [header |-> header, messages |-> messages]

\* f"{user_id}_{uuid}"
ConversationId(user_id, uuid) == [user_id |-> user_id, uuid |-> uuid]

NoHeader == Header("", ConversationId("", 0), "")

\* dict.get(key, default)
get(data, key, default) == IF key \in DOMAIN data THEN data[key] ELSE default

\* the default datetime.now().timestamp() of a dict without "datetime_value"
NowDefault == 0

\* a to_dict that leaves the "name" entry out
Message_to_dict_without_name(m) ==
    [content |-> m.content, role |-> m.role,
     pending_user_reply |-> m.pending_user_reply,
     datetime_value |-> m.datetime_value]

Message_to_dict(m) ==
    [content |-> m.content, role |-> m.role, name |-> m.name,
     pending_user_reply |-> m.pending_user_reply,
     datetime_value |-> m.datetime_value]

Message_from_dict(d) ==
    Message(get(d, "content", <<>>), get(d, "role", <<>>), get(d, "name", None),
            get(d, "pending_user_reply", None),
            get(d, "datetime_value", NowDefault))

Header_to_dict(h) ==
    [user_id |-> h.user_id, conversation_id |-> h.conversation_id,
     sender |-> h.sender]

Header_from_dict(d) ==
    Header(get(d, "user_id", NoHeader.user_id),
           get(d, "conversation_id", NoHeader.conversation_id),
           get(d, "sender", NoHeader.sender))

(***************************************************************************)
(* utils/protocol_utils.py.  A dict read from the bus or the cache has a   *)
(* "header" and a "messages" entry that is a value ("val"), null ("null")  *)
(* or missing ("absent").                                                  *)
(***************************************************************************)
to_dict_messages(messages) ==
    [i \in 1..Len(messages) |-> Message_to_dict(messages[i])]

to_messages_from_dict(messages_dict) ==
    [i \in 1..Len(messages_dict) |-> Message_from_dict(messages_dict[i])]

to_dict_conversation(conversation) ==
    [hkind |-> "val", header |-> Header_to_dict(conversation.header),
     mkind |-> "val", messages |-> to_dict_messages(conversation.messages)]

to_conversation_from_dict(conversation_dict) ==
    Conversation(Header_from_dict(conversation_dict.header),
                 to_messages_from_dict(conversation_dict.messages))

\* the dict {} that RedisHandler.retrieve starts from
EmptyDict == [hkind |-> "absent", header |-> NoHeader,
              mkind |-> "absent", messages |-> <<>>]

\* envelopes without a header or without messages
MalformedDicts ==
    { [hkind |-> k[1], header |-> NoHeader, mkind |-> k[2], messages |-> <<>>] :
        k \in { <<"absent", "val">>, <<"null", "val">>,
                <<"val", "absent">>, <<"val", "null">> } }

\* conversations a producer other than POST /conversation may open with:
\* no message at all, or a single message that is not the user's
ForeignHeader == Header("u1", ConversationId("u1", 0), "p")
ForeignConversations ==
    { [hkind |-> "val", header |-> Header_to_dict(ForeignHeader),
       mkind |-> "val", messages |-> ms] :
        ms \in { <<>>, << Message_to_dict(Message(<<"hi">>, "assistant", "p", "false", 0)) >> } }

\* envelopes a foreign producer may put on a topic
ForeignDicts == MalformedDicts \cup ForeignConversations

(***************************************************************************)
(* agent/helper/swarm_master_helper.py and registry/agent/main.py          *)
(***************************************************************************)
\* a comparison of role codes that is case-sensitive
lower_unchanged(raci_role) == raci_role

\* str.lower() on the role codes of the model
lower(raci_role) ==
    CASE raci_role = "R" -> "r"
      [] raci_role = "A" -> "a"
      [] OTHER -> raci_role

NoAgent == [identifier |-> None, raci_role |-> None]

RECURSIVE count_role(_, _, _)
count_role(agents, raci_role, i) ==
    IF i > Len(agents) THEN 0
    ELSE (IF lower(agents[i].raci_role) = raci_role THEN 1 ELSE 0)
         + count_role(agents, raci_role, i + 1)

\* the last agent of the list with the role (found_agent_vo is overwritten)
RECURSIVE last_with_role(_, _, _)
last_with_role(agents, raci_role, i) ==
    IF i = 0 THEN NoAgent
    ELSE IF lower(agents[i].raci_role) = raci_role THEN agents[i]
    ELSE last_with_role(agents, raci_role, i - 1)

identify_single_role_agent(agents, raci_role) ==
    LET total_agents == count_role(agents, raci_role, 1) IN
    IF total_agents = 0 THEN [raised |-> TRUE, agent |-> NoAgent]
    ELSE IF total_agents > 1 THEN [raised |-> TRUE, agent |-> NoAgent]
    ELSE [raised |-> FALSE, agent |-> last_with_role(agents, raci_role, Len(agents))]

_is_valid_swarm_vo_structure(agents) ==
    LET total_responsible == count_role(agents, "r", 1)
        total_accountable == count_role(agents, "a", 1)
    IN  IF total_responsible = 0 THEN FALSE
        ELSE IF total_accountable = 0 THEN FALSE
        ELSE IF total_accountable > 1 THEN FALSE
        ELSE IF total_responsible > 1 THEN FALSE
        ELSE TRUE

\* SwarmMaster.__init__: TRUE when the constructor returns, FALSE when it raises
SwarmMaster_init(agents) ==
    LET responsible == identify_single_role_agent(agents, "r") IN
    IF responsible.raised THEN FALSE
    ELSE ~ identify_single_role_agent(agents, "a").raised

identifiers(agents) == [i \in 1..Len(agents) |-> agents[i].identifier]

compose_initial_system_message(swarm_name, agents, now) ==
    Message(<<"roles">> \o identifiers(agents), "system", swarm_name, "false", now)

compose_next_agent_message_content(agents, previous_agent) ==
    LET keep(agent_vo) == ~ (agent_vo.identifier = previous_agent)
    IN  <<"select">> \o identifiers(SelectSeq(agents, keep))

(***************************************************************************)
(* agent/oai/swarm_master.py: agent selection                              *)
(***************************************************************************)
MaxAttempts == 5
LLMError == "APIError"       \* the completion call raised instead of replying
LLMReplies == {"p", "writer", "editor", "bogus", None}

\* a fallback that takes the Accountable agent instead
responsible_agent_accountable == identify_single_role_agent(agent_vos, "a").agent

responsible_agent == identify_single_role_agent(agent_vos, "r").agent

_is_in_agents_list(agent_to_validate) ==
    \E i \in 1..Len(agent_vos) : agent_to_validate = agent_vos[i].identifier

names_of(messages) == {messages[i].name : i \in 1..Len(messages)}

\* a retry that offers the same pool as the first attempt
_complete_next_agent_never_narrowed(previous_agent, messages, exclude_previous_agents, reply) ==
    [content |-> compose_next_agent_message_content(agent_vos, previous_agent),
     next_agent |-> reply]

\* the prompt _complete_next_agent appends, and the reply it returns
_complete_next_agent(previous_agent, messages, exclude_previous_agents, reply) ==
    LET not_spoken(agent_vo) == agent_vo.identifier \notin names_of(messages)
        agent_vos_filtered == SelectSeq(agent_vos, not_spoken)
        content == IF exclude_previous_agents
                   THEN compose_next_agent_message_content(agent_vos_filtered, previous_agent)
                   ELSE compose_next_agent_message_content(agent_vos, previous_agent)
    IN  [content |-> content, next_agent |-> reply]

\* the while loop of _identify_next_agent; replies[k] answers the k-th call
RECURSIVE identify_loop(_, _, _, _, _)
identify_loop(previous_agent, messages, replies, retries, prompts) ==
    IF retries < MaxAttempts
    THEN LET completed == _complete_next_agent(previous_agent, messages,
                                               retries > 0, replies[retries + 1])
             asked == Append(prompts, completed.content)
         IN  IF completed.next_agent = LLMError
             THEN [raised |-> TRUE, next_agent |-> None,
                   attempts |-> retries + 1, prompts |-> asked]
             ELSE IF _is_in_agents_list(completed.next_agent)
             THEN [raised |-> FALSE, next_agent |-> completed.next_agent,
                   attempts |-> retries + 1, prompts |-> asked]
             ELSE identify_loop(previous_agent, messages, replies, retries + 1, asked)
    ELSE [raised |-> FALSE, next_agent |-> responsible_agent.identifier,
          attempts |-> retries, prompts |-> prompts]

_identify_next_agent(previous_agent, messages, replies) ==
    identify_loop(previous_agent, messages, replies, 0, <<>>)

(***************************************************************************)
(* agent/raci_agent.py: cache and bus helpers.  A handler's effects on the *)
(* cache and the bus are listed in the order the code performs them.       *)
(***************************************************************************)
NoCid == ConversationId("", 0)

\* f"{user_id}:{conversation_id}"
Key(user_id, conversation_id) ==
    [kind |-> "conv", id |-> user_id, cid |-> conversation_id]

\* f"pending-{conversation_id}"
PendingKey(conversation_id) == [kind |-> "pending", id |-> "", cid |-> conversation_id]

\* f"topic-{agent_identifier}"
Topic(agent_identifier) == [kind |-> "topic", id |-> agent_identifier, cid |-> NoCid]

\* RedisHandler.store: a RedisError is caught, nothing is stored then
RedisHandler_store(key, value, redis_ok) ==
    [op |-> "store", target |-> key, env |-> value, ok |-> redis_ok]

\* RedisHandler.retrieve: {} for a missing key and for a RedisError
RedisHandler_retrieve(key, redis_ok) ==
    IF redis_ok /\ key \in DOMAIN cache THEN cache[key] ELSE EmptyDict

store_conversation(user_id, conversation_id, conversation, redis_ok) ==
    RedisHandler_store(Key(user_id, conversation_id),
                       to_dict_conversation(conversation), redis_ok)

send_message(agent_identifier, conversation) ==
    [op |-> "publish", target |-> Topic(agent_identifier),
     env |-> to_dict_conversation(conversation), ok |-> TRUE]

\* the cache after the stores among the effects
RECURSIVE cache_after(_, _)
cache_after(c, effects) ==
    IF effects = <<>> THEN c
    ELSE LET e == Head(effects)
             c1 == IF e.op = "store" /\ e.ok /\ e.target.kind = "conv"
                   THEN [k \in DOMAIN c \cup {e.target} |->
                            IF k = e.target THEN e.env ELSE c[k]]
                   ELSE c
         IN  cache_after(c1, Tail(effects))

\* the topics after the publishes among the effects
RECURSIVE topics_after(_, _)
topics_after(t, effects) ==
    IF effects = <<>> THEN t
    ELSE LET e == Head(effects)
             t1 == IF e.op = "publish"
                   THEN [t EXCEPT ![e.target.id] = Append(@, e.env)]
                   ELSE t
         IN  topics_after(t1, Tail(effects))

pending_after(p, effects) ==
    p \cup { effects[i].target.cid : i \in
               { j \in 1..Len(effects) : effects[j].op = "store" /\ effects[j].ok
                                          /\ effects[j].target.kind = "pending" } }

(***************************************************************************)
(* agent/oai/swarm_master.py: the orchestrator's turn                      *)
(***************************************************************************)
NoSelection == [raised |-> FALSE, next_agent |-> None, attempts |-> 0, prompts |-> <<>>]

\* _process_regular_response run by an instance whose self.proxy holds remembered
_process_regular_response_from(remembered, conversation, replies, redis_ok, now) ==
    LET agent_requestor == conversation.header.sender
        sel == _identify_next_agent(agent_requestor, conversation.messages, replies)
        next_agent == sel.next_agent
        proxy1 == IF remembered = None THEN agent_requestor ELSE remembered
        n == Len(conversation.messages)
        tail == conversation.messages[n]
        marked == IF proxy1 = next_agent /\ tail.role # "user"
                  THEN [tail EXCEPT !.pending_user_reply = "true"]
                  ELSE tail
        stamped == [marked EXCEPT !.datetime_value = now]
        routed == Conversation([conversation.header EXCEPT !.sender = SwarmName],
                               [conversation.messages EXCEPT ![n] = stamped])
    IN  IF sel.raised
        THEN [raised |-> TRUE, requestor |-> agent_requestor, sel |-> sel,
              proxy |-> remembered, conversation |-> conversation, effects |-> <<>>]
        ELSE [raised |-> FALSE, requestor |-> agent_requestor, sel |-> sel,
              proxy |-> proxy1, conversation |-> routed,
              effects |-> << store_conversation(routed.header.user_id,
                                                routed.header.conversation_id,
                                                routed, redis_ok),
                             send_message(next_agent, routed) >>]

\* a routing turn that marks the tail whatever its role
_process_regular_response_no_role_guard(conversation, replies, redis_ok, now) ==
    LET agent_requestor == conversation.header.sender
        sel == _identify_next_agent(agent_requestor, conversation.messages, replies)
        next_agent == sel.next_agent
        proxy1 == IF proxy = None THEN agent_requestor ELSE proxy
        n == Len(conversation.messages)
        tail == conversation.messages[n]
        marked == IF proxy1 = next_agent
                  THEN [tail EXCEPT !.pending_user_reply = "true"]
                  ELSE tail
        stamped == [marked EXCEPT !.datetime_value = now]
        routed == Conversation([conversation.header EXCEPT !.sender = SwarmName],
                               [conversation.messages EXCEPT ![n] = stamped])
    IN  IF sel.raised
        THEN [raised |-> TRUE, requestor |-> agent_requestor, sel |-> sel,
              proxy |-> proxy, conversation |-> conversation, effects |-> <<>>]
        ELSE [raised |-> FALSE, requestor |-> agent_requestor, sel |-> sel,
              proxy |-> proxy1, conversation |-> routed,
              effects |-> << store_conversation(routed.header.user_id,
                                                routed.header.conversation_id,
                                                routed, redis_ok),
                             send_message(next_agent, routed) >>]

\* a routing turn that stores the conversation as it was before the tail was marked
_process_regular_response_store_unmarked(conversation, replies, redis_ok, now) ==
    LET agent_requestor == conversation.header.sender
        sel == _identify_next_agent(agent_requestor, conversation.messages, replies)
        next_agent == sel.next_agent
        proxy1 == IF proxy = None THEN agent_requestor ELSE proxy
        n == Len(conversation.messages)
        tail == conversation.messages[n]
        marked == IF proxy1 = next_agent /\ tail.role # "user"
                  THEN [tail EXCEPT !.pending_user_reply = "true"]
                  ELSE tail
        stamped == [marked EXCEPT !.datetime_value = now]
        routed == Conversation([conversation.header EXCEPT !.sender = SwarmName],
                               [conversation.messages EXCEPT ![n] = stamped])
    IN  IF sel.raised
        THEN [raised |-> TRUE, requestor |-> agent_requestor, sel |-> sel,
              proxy |-> proxy, conversation |-> conversation, effects |-> <<>>]
        ELSE [raised |-> FALSE, requestor |-> agent_requestor, sel |-> sel,
              proxy |-> proxy1, conversation |-> routed,
              effects |-> << store_conversation(routed.header.user_id,
                                                routed.header.conversation_id,
                                                conversation, redis_ok),
                             send_message(next_agent, routed) >>]

\* a routing turn that publishes before it stores
_process_regular_response_send_first(conversation, replies, redis_ok, now) ==
    LET agent_requestor == conversation.header.sender
        sel == _identify_next_agent(agent_requestor, conversation.messages, replies)
        next_agent == sel.next_agent
        proxy1 == IF proxy = None THEN agent_requestor ELSE proxy
        n == Len(conversation.messages)
        tail == conversation.messages[n]
        marked == IF proxy1 = next_agent /\ tail.role # "user"
                  THEN [tail EXCEPT !.pending_user_reply = "true"]
                  ELSE tail
        stamped == [marked EXCEPT !.datetime_value = now]
        routed == Conversation([conversation.header EXCEPT !.sender = SwarmName],
                               [conversation.messages EXCEPT ![n] = stamped])
    IN  IF sel.raised
        THEN [raised |-> TRUE, requestor |-> agent_requestor, sel |-> sel,
              proxy |-> proxy, conversation |-> conversation, effects |-> <<>>]
        ELSE [raised |-> FALSE, requestor |-> agent_requestor, sel |-> sel,
              proxy |-> proxy1, conversation |-> routed,
              effects |-> << send_message(next_agent, routed),
                             store_conversation(routed.header.user_id,
                                                routed.header.conversation_id,
                                                routed, redis_ok) >>]

_process_regular_response(conversation, replies, redis_ok, now) ==
    _process_regular_response_from(proxy, conversation, replies, redis_ok, now)

\* framing every conversation of at most one message
needs_framing_any_single(messages) == Len(messages) <= 1

\* does SwarmMaster.process_response frame the conversation
needs_framing(messages) ==
    IF Len(messages) = 0 THEN TRUE
    ELSE IF Len(messages) = 1 THEN messages[1].role = "user"
    ELSE FALSE

\* an orchestrator that puts the framing message in front of the conversation
SwarmMaster_process_response_framing_first(conversation, replies, redis_ok, now) ==
    LET framed == needs_framing(conversation.messages)
        messages == IF framed
                    THEN <<compose_initial_system_message(SwarmName, agent_vos, now)>>
                            \o conversation.messages
                    ELSE conversation.messages
        r == _process_regular_response(Conversation(conversation.header, messages),
                                       replies, redis_ok, now)
    IN  [raised |-> r.raised, framed |-> framed,
         requestor |-> r.requestor, sel |-> r.sel, proxy |-> r.proxy,
         conversation |-> r.conversation, effects |-> r.effects]

SwarmMaster_process_response(conversation, replies, redis_ok, now) ==
    LET framed == needs_framing(conversation.messages)
        messages == IF framed
                    THEN Append(conversation.messages,
                                compose_initial_system_message(SwarmName, agent_vos, now))
                    ELSE conversation.messages
        r == _process_regular_response(Conversation(conversation.header, messages),
                                       replies, redis_ok, now)
    IN  [raised |-> r.raised, framed |-> framed,
         requestor |-> r.requestor, sel |-> r.sel, proxy |-> r.proxy,
         conversation |-> r.conversation, effects |-> r.effects]

(***************************************************************************)
(* agent/oai/oai_raci_agent.py: the specialist's turn                      *)
(***************************************************************************)
max_retries == 5
base_wait_time == 5
CompletionOutcomes == {"ok", "transient", "terminal"}

\* the loop going on to the next attempt after a terminal error
RECURSIVE completion_loop_terminal_retried(_, _, _, _)
completion_loop_terminal_retried(outcomes, retries, calls, waits) ==
    IF retries < max_retries
    THEN LET outcome == outcomes[calls + 1] IN
         IF outcome = "ok"
         THEN [response |-> TRUE, calls |-> calls + 1, waits |-> waits]
         ELSE IF outcome = "transient"
         THEN completion_loop_terminal_retried(outcomes, retries + 1, calls + 1,
                              Append(waits, base_wait_time * (retries + 1)))
         ELSE completion_loop_terminal_retried(outcomes, retries + 1, calls + 1, waits)
    ELSE [response |-> FALSE, calls |-> calls, waits |-> waits]

\* the loop waiting base_wait_time after every transient failure
RECURSIVE completion_loop_fixed_wait(_, _, _, _)
completion_loop_fixed_wait(outcomes, retries, calls, waits) ==
    IF retries < max_retries
    THEN LET outcome == outcomes[calls + 1] IN
         IF outcome = "ok"
         THEN [response |-> TRUE, calls |-> calls + 1, waits |-> waits]
         ELSE IF outcome = "transient"
         THEN completion_loop_fixed_wait(outcomes, retries + 1, calls + 1,
                              Append(waits, base_wait_time))
         ELSE completion_loop_fixed_wait(outcomes, max_retries, calls + 1, waits)
    ELSE [response |-> FALSE, calls |-> calls, waits |-> waits]

\* the while loop of _do_completion_call; outcomes[k] is what the k-th call
\* to the completion API does
RECURSIVE completion_loop(_, _, _, _)
completion_loop(outcomes, retries, calls, waits) ==
    IF retries < max_retries
    THEN LET outcome == outcomes[calls + 1] IN
         IF outcome = "ok"
         THEN [response |-> TRUE, calls |-> calls + 1, waits |-> waits]
         ELSE IF outcome = "transient"
         THEN completion_loop(outcomes, retries + 1, calls + 1,
                              Append(waits, base_wait_time * (retries + 1)))
         ELSE completion_loop(outcomes, max_retries, calls + 1, waits)
    ELSE [response |-> FALSE, calls |-> calls, waits |-> waits]

_do_completion_call(outcomes) == completion_loop(outcomes, 0, 0, <<>>)

\* _complete with self.tools = None: response.choices[0] on the None that
\* _do_completion_call returns raises AttributeError
_complete(outcomes) ==
    LET response == _do_completion_call(outcomes) IN
    IF response.response
    THEN [raised |-> FALSE, content |-> <<"reply">>, calls |-> response.calls]
    ELSE [raised |-> TRUE, content |-> <<>>, calls |-> response.calls]

\* a specialist that publishes its reply twice
OpenAIRaciAgent_process_response_send_twice(name, conversation, outcomes, now) ==
    LET agent_requestor == conversation.header.sender
        completed == _complete(outcomes)
        replied == Conversation(
            [conversation.header EXCEPT !.sender = name],
            Append(conversation.messages,
                   Message(completed.content, "assistant", name, "false", now)))
    IN  IF completed.raised
        THEN [raised |-> TRUE, requestor |-> agent_requestor,
              completion |-> "None",
              conversation |-> conversation, effects |-> <<>>]
        ELSE [raised |-> FALSE, requestor |-> agent_requestor,
              completion |-> "response",
              conversation |-> replied,
              effects |-> << send_message(agent_requestor, replied),
                             send_message(agent_requestor, replied) >>]

OpenAIRaciAgent_process_response(name, conversation, outcomes, now) ==
    LET agent_requestor == conversation.header.sender
        completed == _complete(outcomes)
        replied == Conversation(
            [conversation.header EXCEPT !.sender = name],
            Append(conversation.messages,
                   Message(completed.content, "assistant", name, "false", now)))
    IN  IF completed.raised
        THEN [raised |-> TRUE, requestor |-> agent_requestor,
              completion |-> "None",
              conversation |-> conversation, effects |-> <<>>]
        ELSE [raised |-> FALSE, requestor |-> agent_requestor,
              completion |-> "response",
              conversation |-> replied,
              effects |-> << send_message(agent_requestor, replied) >>]

(***************************************************************************)
(* agent/oai/user_proxy_agent.py                                           *)
(***************************************************************************)
UserProxyAgent_process_response(conversation, redis_ok) ==
    [raised |-> FALSE, requestor |-> conversation.header.sender,
     conversation |-> conversation,
     effects |-> << RedisHandler_store(PendingKey(conversation.header.conversation_id),
                                       EmptyDict, redis_ok) >>]

\* POST /conversation that publishes the new conversation without storing it
start_conversation_send_only(user_id, request, unique_id, redis_ok, now) ==
    LET conversation_id == ConversationId(user_id, unique_id)
        conversation == Conversation(
            Header(user_id, conversation_id, ProxyName),
            << Message(request, "user", user_id, None, now) >>)
    IN  [raised |-> FALSE, requestor |-> None, conversation |-> conversation,
         effects |-> << send_message(SwarmName, conversation) >>]

\* POST /conversation that signs the header with the user instead of the proxy
start_conversation_sender_user(user_id, request, unique_id, redis_ok, now) ==
    LET conversation_id == ConversationId(user_id, unique_id)
        conversation == Conversation(
            Header(user_id, conversation_id, user_id),
            << Message(request, "user", user_id, None, now) >>)
    IN  [raised |-> FALSE, requestor |-> None, conversation |-> conversation,
         effects |-> << store_conversation(user_id, conversation_id, conversation, redis_ok),
                        send_message(SwarmName, conversation) >>]

start_conversation(user_id, request, unique_id, redis_ok, now) ==
    LET conversation_id == ConversationId(user_id, unique_id)
        conversation == Conversation(
            Header(user_id, conversation_id, ProxyName),
            << Message(request, "user", user_id, None, now) >>)
    IN  [raised |-> FALSE, requestor |-> None, conversation |-> conversation,
         effects |-> << store_conversation(user_id, conversation_id, conversation, redis_ok),
                        send_message(SwarmName, conversation) >>]

\* POST /reply that also writes the replied conversation to the cache
reply_stored(user_id, conversation_id, content, redis_ok, now) ==
    LET conversation_dict == RedisHandler_retrieve(Key(user_id, conversation_id), redis_ok)
        conversation == to_conversation_from_dict(conversation_dict)
        agent_requestor == conversation.header.sender
        replied == Conversation(
            [conversation.header EXCEPT !.sender = user_id],
            Append(conversation.messages,
                   Message(content, "user", user_id, None, now)))
    IN  IF conversation_dict.hkind = "absent" \/ conversation_dict.mkind = "absent"
        THEN [raised |-> TRUE, requestor |-> None,
              conversation |-> Conversation(NoHeader, <<>>), effects |-> <<>>]
        ELSE [raised |-> FALSE, requestor |-> agent_requestor,
              conversation |-> replied,
              effects |-> << store_conversation(user_id, conversation_id, replied, redis_ok),
                             send_message(agent_requestor, replied) >>]

\* retrieve_conversation: to_conversation_from_dict({}) raises KeyError
reply(user_id, conversation_id, content, redis_ok, now) ==
    LET conversation_dict == RedisHandler_retrieve(Key(user_id, conversation_id), redis_ok)
        conversation == to_conversation_from_dict(conversation_dict)
        agent_requestor == conversation.header.sender
        replied == Conversation(
            [conversation.header EXCEPT !.sender = user_id],
            Append(conversation.messages,
                   Message(content, "user", user_id, None, now)))
    IN  IF conversation_dict.hkind = "absent" \/ conversation_dict.mkind = "absent"
        THEN [raised |-> TRUE, requestor |-> None,
              conversation |-> Conversation(NoHeader, <<>>), effects |-> <<>>]
        ELSE [raised |-> FALSE, requestor |-> agent_requestor,
              conversation |-> replied,
              effects |-> << send_message(agent_requestor, replied) >>]

(***************************************************************************)
(* RaciAgent.on_response: what a handler run amounts to                    *)
(***************************************************************************)
Turn(kind, agent, received, outcome, framed, requestor, sel, completion, conversation, effects) ==
    [kind |-> kind, agent |-> agent, received |-> received, outcome |-> outcome,
     framed |-> framed, requestor |-> requestor, sel |-> sel,
     completion |-> completion, conversation |-> conversation, effects |-> effects]

NoTurn == Turn("none", None, EmptyDict, "ok", FALSE, None, NoSelection, "n/a",
               EmptyDict, <<>>)

\* "raised": response["header"] / response["messages"] is a KeyError;
\* "dropped": the entry is null; "process": process_response is called
on_response(response) ==
    IF response.hkind = "absent" THEN "raised"
    ELSE IF response.hkind = "null" THEN "dropped"
    ELSE IF response.mkind = "absent" THEN "raised"
    ELSE IF response.mkind = "null" THEN "dropped"
    ELSE "process"

\* the turn of an agent whose process_response returned r
Processed(kind, agent, response, framed, sel, completion, r) ==
    Turn(kind, agent, response, IF r.raised THEN "raised" ELSE "ok", framed,
         r.requestor, sel, completion, to_dict_conversation(r.conversation),
         r.effects)

\* the turn of an agent whose on_response did not reach process_response
NotProcessed(kind, agent, response) ==
    Turn(kind, agent, response, on_response(response), FALSE, None,
         NoSelection, "n/a", response, <<>>)

(***************************************************************************)
(* What the environment may answer.                                        *)
(***************************************************************************)
\* five LLM replies to the selection prompt: unknown names, except possibly
\* the first reply, or a second reply that names the editor
OneReplyAt(k, x) == [i \in 1..MaxAttempts |-> IF i = k THEN x ELSE "bogus"]
ReplySeqs ==
    { OneReplyAt(1, x) : x \in {"p", "writer", "editor", "bogus", LLMError} }
      \cup { OneReplyAt(2, "editor") }

\* transient failures of the completion API, then a success or a terminal error
OutcomesEndingAt(k, x) ==
    [i \in 1..max_retries |-> IF i < k THEN "transient" ELSE IF i = k THEN x ELSE "ok"]
OutcomeSeqs ==
    { OutcomesEndingAt(k, x) : k \in 1..max_retries, x \in CompletionOutcomes }

NoClientCall == [op |-> "none"]

\* KafkaHandler.__init__: no consumer, no producer, not running; consumer
\* and producer count the clients created so far, thread is the state of the
\* run_kafka thread, handled counts the messages given to on_response, last
\* is what the most recent step met
KafkaHandler_init ==
    [running |-> FALSE, consumer |-> 0, producer |-> 0, subscribed |-> FALSE,
     topic_ensured |-> 0, thread |-> "not started", handled |-> 0, last |-> "none"]

EmptyQueues == [a \in Addressees |-> <<>>]
NoCall == [previous_agent |-> None, messages |-> <<>>, replies |-> <<>>,
           result |-> NoSelection]

(***************************************************************************)
(* Actions.                                                                *)
(***************************************************************************)
\* KafkaHandler.poll_messages of agent a consumed the head of its topic and
\* the handler run t followed; an exception that is not a KafkaException
\* leaves run_kafka's loop
Deliver(a, t) ==
    /\ lastTurn' = t
    /\ topics' = topics_after([topics EXCEPT ![a] = Tail(@)], t.effects)
    /\ cache' = cache_after(cache, t.effects)
    /\ pending' = pending_after(pending, t.effects)
    /\ alive' = IF t.outcome = "raised" THEN [alive EXCEPT ![a] = FALSE] ELSE alive
    /\ clock' = clock + 1

\* an HTTP handler run t
Served(t) ==
    /\ lastTurn' = t
    /\ topics' = topics_after(topics, t.effects)
    /\ cache' = cache_after(cache, t.effects)
    /\ pending' = pending_after(pending, t.effects)
    /\ clock' = clock + 1

OrchestratorTurn ==
    /\ alive[SwarmName]
    /\ topics[SwarmName] # <<>>
    /\ clock < MaxClock
    /\ \E replies \in ReplySeqs, redis_ok \in BOOLEAN :
         LET response == Head(topics[SwarmName])
             conversation == to_conversation_from_dict(response)
             r == SwarmMaster_process_response(conversation, replies, redis_ok, clock)
         IN  IF on_response(response) = "process"
             THEN /\ Deliver(SwarmName,
                             Processed("orch", SwarmName, response, r.framed, r.sel,
                                       "n/a", r))
                  /\ proxy' = r.proxy
                  /\ selection' =
                       [previous_agent |-> r.requestor,
                        messages |-> IF r.framed
                                     THEN Append(conversation.messages,
                                                 compose_initial_system_message(
                                                     SwarmName, agent_vos, clock))
                                     ELSE conversation.messages,
                        replies |-> replies, result |-> r.sel]
             ELSE /\ Deliver(SwarmName, NotProcessed("orch", SwarmName, response))
                  /\ UNCHANGED <<proxy, selection>>
    /\ UNCHANGED <<agent_vos, uuids, registry_valid, swarm_started, call, kafka>>

SpecialistTurn(a) ==
    /\ alive[a]
    /\ topics[a] # <<>>
    /\ clock < MaxClock
    /\ \E outcomes \in OutcomeSeqs :
         LET response == Head(topics[a])
             r == OpenAIRaciAgent_process_response(
                      a, to_conversation_from_dict(response), outcomes, clock)
         IN  IF on_response(response) = "process"
             THEN Deliver(a, Processed("spec", a, response, FALSE, NoSelection,
                                      r.completion, r))
             ELSE Deliver(a, NotProcessed("spec", a, response))
    /\ UNCHANGED <<agent_vos, proxy, uuids, selection,
                   registry_valid, swarm_started, call, kafka>>

ProxyTurn ==
    /\ alive[ProxyName]
    /\ topics[ProxyName] # <<>>
    /\ clock < MaxClock
    /\ \E redis_ok \in BOOLEAN :
         LET response == Head(topics[ProxyName])
             r == UserProxyAgent_process_response(
                      to_conversation_from_dict(response), redis_ok)
         IN  IF on_response(response) = "process"
             THEN Deliver(ProxyName,
                          Processed("proxy", ProxyName, response, FALSE, NoSelection,
                                    "n/a", r))
             ELSE Deliver(ProxyName, NotProcessed("proxy", ProxyName, response))
    /\ UNCHANGED <<agent_vos, proxy, uuids, selection,
                   registry_valid, swarm_started, call, kafka>>

\* POST /conversation
StartConversation ==
    /\ uuids < MaxConvs
    /\ clock < MaxClock
    /\ \E user_id \in Users, redis_ok \in BOOLEAN :
         Served(Processed("start", ProxyName, EmptyDict, FALSE, NoSelection, "n/a",
                          start_conversation(user_id, <<"req">>, uuids + 1,
                                             redis_ok, clock)))
    /\ uuids' = uuids + 1
    /\ UNCHANGED <<agent_vos, proxy, alive, selection,
                   registry_valid, swarm_started, call, kafka>>

\* POST /reply
Reply ==
    /\ clock < MaxClock
    /\ \E user_id \in Users, unique_id \in 1..MaxConvs, redis_ok \in BOOLEAN :
         Served(Processed("reply", ProxyName,
                          RedisHandler_retrieve(
                              Key(user_id, ConversationId(user_id, unique_id)), redis_ok),
                          FALSE, NoSelection, "n/a",
                          reply(user_id, ConversationId(user_id, unique_id),
                                <<"more">>, redis_ok, clock)))
    /\ UNCHANGED <<agent_vos, proxy, alive, uuids, selection,
                   registry_valid, swarm_started, call, kafka>>

\* some other producer puts an envelope without header or messages on a topic
Inject ==
    /\ clock < MaxClock
    /\ \E a \in {SwarmName, "writer"}, d \in ForeignDicts :
         /\ d \in ForeignConversations => a = SwarmName
         /\ topics' = [topics EXCEPT ![a] = Append(@, d)]
    /\ clock' = clock + 1
    /\ UNCHANGED <<agent_vos, proxy, cache, pending, alive, uuids,
                   lastTurn, selection, registry_valid, swarm_started, call, kafka>>

Idle ==
    /\ proxy = None
    /\ topics = EmptyQueues
    /\ cache = [k \in {} |-> EmptyDict]
    /\ pending = {}
    /\ alive = [a \in Names |-> TRUE]
    /\ clock = 1
    /\ uuids = 0
    /\ lastTurn = NoTurn
    /\ selection = NoCall
    /\ registry_valid = "unset"
    /\ swarm_started = "unset"
    /\ call = NoClientCall
    /\ kafka = KafkaHandler_init

Init == agent_vos \in Swarms /\ Idle

Next ==
    \/ OrchestratorTurn
    \/ \E a \in Specialists : SpecialistTurn(a)
    \/ ProxyTurn
    \/ StartConversation
    \/ Reply
    \/ Inject

Spec == Init /\ [][Next]_vars

(***************************************************************************)
(* Loading a swarm: the registry's validator and the orchestrator's        *)
(* constructor, applied to every agent list of up to MaxAgents agents.     *)
(***************************************************************************)
AgentIds == <<"p", "writer", "editor", "tester">>

AgentLists ==
    UNION { { [i \in 1..n |-> [identifier |-> AgentIds[i], raci_role |-> roles[i]]] :
                roles \in [1..n -> RaciRoles] } : n \in 0..MaxAgents }

\* starter_swarm._start_swarm: an empty agent list exits before construction
_start_swarm(agents) ==
    IF agents = <<>> THEN FALSE ELSE SwarmMaster_init(agents)

InitSwarm == agent_vos \in AgentLists /\ Idle

\* GET /swarms/{identifier} validates the descriptor
RegistryValidate ==
    /\ registry_valid = "unset"
    /\ registry_valid' = IF _is_valid_swarm_vo_structure(agent_vos)
                         THEN "valid" ELSE "invalid"
    /\ UNCHANGED <<agent_vos, proxy, topics, cache, pending, alive, clock, uuids,
                   lastTurn, selection, swarm_started, call, kafka>>

\* starter_swarm constructs the SwarmMaster
StartSwarm ==
    /\ swarm_started = "unset"
    /\ swarm_started' = IF _start_swarm(agent_vos) THEN "started" ELSE "failed"
    /\ UNCHANGED <<agent_vos, proxy, topics, cache, pending, alive, clock, uuids,
                   lastTurn, selection, registry_valid, call, kafka>>

NextSwarm == RegistryValidate \/ StartSwarm

SpecSwarm == InitSwarm /\ [][NextSwarm]_vars

(***************************************************************************)
(* Agent selection on its own: every previous agent, every five replies.   *)
(***************************************************************************)
Histories ==
    { << Message(<<"req">>, "user", "u1", None, 1),
         Message(<<"roles">>, "system", SwarmName, "false", 2) >>,
      << Message(<<"req">>, "user", "u1", None, 1),
         Message(<<"roles">>, "system", SwarmName, "false", 2),
         Message(<<"reply">>, "assistant", "writer", "false", 3) >> }

InitSelect == agent_vos \in Swarms /\ Idle

Select ==
    /\ selection = NoCall
    /\ \E previous_agent \in Addressees, messages \in Histories,
          replies \in [1..MaxAttempts -> LLMReplies \cup {LLMError}] :
         selection' = [previous_agent |-> previous_agent, messages |-> messages,
                       replies |-> replies,
                       result |-> _identify_next_agent(previous_agent, messages, replies)]
    /\ UNCHANGED <<agent_vos, proxy, topics, cache, pending, alive, clock, uuids,
                   lastTurn, registry_valid, swarm_started, call, kafka>>

NextSelect == Select

SpecSelect == InitSelect /\ [][NextSelect]_vars

(***************************************************************************)
(* Properties.                                                             *)
(***************************************************************************)
(***************************************************************************)
(* The cache client on its own: RedisHandler over the Redis store.         *)
(***************************************************************************)
\* what the Redis client or the JSON codec may raise inside store / retrieve
StoreFaults == {"none", "RedisError", "TypeError"}
RetrieveFaults == {"none", "RedisError", "JSONDecodeError"}

\* RedisHandler.retrieve with an except clause that leaves RedisError out
RedisHandler_retrieve_result_decode_only(c, key, fault) ==
    [raised |-> fault \notin {"none", "JSONDecodeError"},
     value |-> IF fault = "none" /\ key \in DOMAIN c THEN c[key] ELSE EmptyDict]

\* RedisHandler.retrieve on the store c: value starts as {} and is replaced
\* only when get returned a string that json.loads decoded
RedisHandler_retrieve_result(c, key, fault) ==
    [raised |-> fault \notin {"none", "RedisError", "JSONDecodeError"},
     value |-> IF fault = "none" /\ key \in DOMAIN c THEN c[key] ELSE EmptyDict]

\* the Python value None where a dict is expected
NoneValue == [EmptyDict EXCEPT !.hkind = "None", !.mkind = "None"]

\* RedisHandler.store on the store c: added_fields starts as 0 and is the
\* result of set only when value is not None and nothing was raised
RedisHandler_store_result(c, key, value, fault) ==
    LET stored == value # NoneValue /\ fault = "none"
    IN  [raised |-> fault \notin {"none", "RedisError", "TypeError"},
         added_fields |-> IF stored THEN 1 ELSE 0,
         cache |-> IF stored
                   THEN [k \in DOMAIN c \cup {key} |-> IF k = key THEN value ELSE c[k]]
                   ELSE c]

\* RedisHandler.delete on the store c
RedisHandler_delete_result(c, key, fault) ==
    LET deleted == fault = "none" /\ key \in DOMAIN c
    IN  [raised |-> fault \notin {"none", "RedisError"},
         deleted |-> deleted,
         cache |-> IF deleted THEN [k \in DOMAIN c \ {key} |-> c[k]] ELSE c]

CacheKeys == {Key(u, ConversationId(u, n)) : u \in Users, n \in 0..MaxConvs}
CacheValues == ForeignConversations

CacheStore ==
    \E key \in CacheKeys, value \in CacheValues \cup {NoneValue}, fault \in StoreFaults :
        LET r == RedisHandler_store_result(cache, key, value, fault)
        IN  /\ cache' = r.cache
            /\ call' = [op |-> "store", key |-> key, fault |-> fault,
                        before |-> cache, result |-> r]
            /\ UNCHANGED <<agent_vos, proxy, topics, pending, alive, clock, uuids,
                           lastTurn, selection, registry_valid, swarm_started, kafka>>

CacheRetrieve ==
    \E key \in CacheKeys, fault \in RetrieveFaults :
        /\ call' = [op |-> "retrieve", key |-> key, fault |-> fault,
                    before |-> cache,
                    result |-> RedisHandler_retrieve_result(cache, key, fault)]
        /\ UNCHANGED <<agent_vos, proxy, topics, cache, pending, alive, clock, uuids,
                       lastTurn, selection, registry_valid, swarm_started, kafka>>

CacheDelete ==
    \E key \in CacheKeys, fault \in {"none", "RedisError"} :
        LET r == RedisHandler_delete_result(cache, key, fault)
        IN  /\ cache' = r.cache
            /\ call' = [op |-> "delete", key |-> key, fault |-> fault,
                        before |-> cache, result |-> r]
            /\ UNCHANGED <<agent_vos, proxy, topics, pending, alive, clock, uuids,
                           lastTurn, selection, registry_valid, swarm_started, kafka>>

InitCache == agent_vos = SwarmWithProxy /\ Idle
NextCache == CacheStore \/ CacheRetrieve \/ CacheDelete
SpecCache == InitCache /\ [][NextCache]_vars


(***************************************************************************)
(* The codec on its own: a Conversation serialized and read back.          *)
(***************************************************************************)
CodecMessages ==
    { Message(c, r, n, p, 1) :
        c \in {<<>>, <<"hi">>}, r \in {"user", "assistant"},
        n \in {None, "writer"}, p \in {None, "false", "true"} }
CodecHeaders == { Header("u1", ConversationId("u1", 1), s) : s \in {SwarmName, ""} }
CodecConversations ==
    { Conversation(h, ms) :
        h \in CodecHeaders,
        ms \in UNION { [1..n -> CodecMessages] : n \in 0..MaxMsgs } }

InitCodec ==
    /\ agent_vos = SwarmWithProxy
    /\ proxy = None
    /\ topics = EmptyQueues
    /\ cache = [k \in {} |-> EmptyDict]
    /\ pending = {}
    /\ alive = [a \in Names |-> TRUE]
    /\ clock = 1
    /\ uuids = 0
    /\ lastTurn = NoTurn
    /\ selection = NoCall
    /\ registry_valid = "unset"
    /\ swarm_started = "unset"
    /\ kafka = KafkaHandler_init
    /\ \E c \in CodecConversations : call = [op |-> "conversation", conversation |-> c]

\* to_conversation_from_dict(to_dict_conversation(conversation))
RoundTrip ==
    /\ call.op = "conversation"
    /\ LET conversation_dict == to_dict_conversation(call.conversation)
       IN  call' = [op |-> "roundtrip", conversation |-> call.conversation,
                    conversation_dict |-> conversation_dict,
                    back |-> to_conversation_from_dict(conversation_dict)]
    /\ UNCHANGED <<agent_vos, proxy, topics, cache, pending, alive, clock, uuids,
                   lastTurn, selection, registry_valid, swarm_started, kafka>>

NextCodec == RoundTrip
SpecCodec == InitCodec /\ [][NextCodec]_vars

(***************************************************************************)
(* The completion call on its own, over every sequence of API outcomes.    *)
(***************************************************************************)
DoCompletionCall ==
    /\ call = NoClientCall
    /\ \E outcomes \in [1..max_retries -> CompletionOutcomes] :
         call' = [op |-> "completion", outcomes |-> outcomes,
                  result |-> _do_completion_call(outcomes)]
    /\ UNCHANGED <<agent_vos, proxy, topics, cache, pending, alive, clock, uuids,
                   lastTurn, selection, registry_valid, swarm_started, kafka>>

InitCompletion == agent_vos = SwarmWithProxy /\ Idle
NextCompletion == DoCompletionCall
SpecCompletion == InitCompletion /\ [][NextCompletion]_vars

(***************************************************************************)
(* The bus client on its own: KafkaHandler.start, setup_connection and the *)
(* run_kafka / poll_messages loop.                                         *)
(***************************************************************************)
\* the step of setup_connection that raises KafkaException, if any
ConnectFaults == {"none", "Consumer", "_create_topic", "Producer", "subscribe"}

\* what one call of poll_messages meets: no message, a message whose handler
\* returns, a KafkaException, or any other exception (json.loads of the
\* payload, on_response, process_response)
PollEvents == {"no message", "message", "KafkaException", "Exception"}

\* setup_connection: the statements before the one that raises take effect,
\* the KafkaException is caught and logged
setup_connection(k, fault) ==
    LET c == fault # "Consumer"
        t == c /\ fault # "_create_topic"
        p == t /\ fault # "Producer"
        s == p /\ fault # "subscribe"
    IN  [k EXCEPT !.consumer = IF c THEN @ + 1 ELSE @,
                  !.subscribed = IF c THEN s ELSE @,
                  !.topic_ensured = IF t THEN @ + 1 ELSE @,
                  !.producer = IF p THEN @ + 1 ELSE @,
                  !.running = IF s THEN TRUE ELSE @]

\* run_kafka: while self.running: poll_messages(), entered by the new thread
run_kafka(k) == [k EXCEPT !.thread = IF k.running THEN "polling" ELSE "exited"]

\* KafkaHandler.start
KafkaStart ==
    /\ kafka.thread = "not started"
    /\ \E fault \in ConnectFaults :
         kafka' = [run_kafka(setup_connection(kafka, fault)) EXCEPT
                      !.last = IF fault = "none" THEN "connected" ELSE "connect failed"]
    /\ UNCHANGED <<agent_vos, proxy, topics, cache, pending, alive, clock, uuids,
                   lastTurn, selection, registry_valid, swarm_started, call>>

\* one iteration of run_kafka's loop: poll_messages catches KafkaException
\* only and reconnects; any other exception ends the thread
PollMessages ==
    /\ kafka.thread = "polling"
    /\ kafka.consumer < MaxConnects
    /\ \E event \in PollEvents, fault \in ConnectFaults :
         /\ (event # "KafkaException" => fault = "none")
         /\ (event = "message" => kafka.subscribed /\ kafka.handled < MaxConnects)
         /\ kafka' =
              IF event = "KafkaException"
              THEN [setup_connection(kafka, fault) EXCEPT
                       !.last = IF fault = "none" THEN "reconnected" ELSE "reconnect failed"]
              ELSE IF event = "Exception"
              THEN [kafka EXCEPT !.thread = "exited", !.last = event]
              ELSE IF event = "message"
              THEN [kafka EXCEPT !.handled = @ + 1, !.last = event]
              ELSE [kafka EXCEPT !.last = event]
    /\ UNCHANGED <<agent_vos, proxy, topics, cache, pending, alive, clock, uuids,
                   lastTurn, selection, registry_valid, swarm_started, call>>

InitKafka == agent_vos = SwarmWithProxy /\ Idle
NextKafka == KafkaStart \/ PollMessages
SpecKafka == InitKafka /\ [][NextKafka]_vars

(***************************************************************************)
(* Tool-call resolution of a specialist: helper/oai/agent_tools_helper.py  *)
(* and the tools branch of OpenAIRaciAgent._complete.  A tools table is a  *)
(* sequence (dict order) of [endpoint, methods], methods a sequence of     *)
(* [method, tools], tools the sequence of function names.                  *)
(***************************************************************************)
ToolTables ==
    { <<>>,
      << [endpoint |-> "e1", methods |-> << [method |-> "get", tools |-> <<"search">>] >>] >>,
      << [endpoint |-> "e1", methods |-> << [method |-> "get", tools |-> <<"search">>] >>],
         [endpoint |-> "e2", methods |-> << [method |-> "post", tools |-> <<"fetch">>] >>] >>,
      << [endpoint |-> "e1", methods |-> << [method |-> "put", tools |-> <<"search">>] >>],
         [endpoint |-> "e2", methods |-> <<>>] >> }
ToolNames == {"search", "fetch", "bogus"}

\* the two inner while loops of _retrieve_http_request_values over the
\* methods of one endpoint, from index j on; http_method keeps the last
\* method visited
RECURSIVE scan_methods(_, _, _, _)
scan_methods(http_methods, j, name, http_method) ==
    IF j > Len(http_methods) THEN [found |-> FALSE, http_method |-> http_method]
    ELSE IF \E k \in 1..Len(http_methods[j].tools) : http_methods[j].tools[k] = name
         THEN [found |-> TRUE, http_method |-> http_methods[j].method]
         ELSE scan_methods(http_methods, j + 1, name, http_methods[j].method)

\* the outer while loop; http_endpoint keeps the last endpoint visited
RECURSIVE scan_endpoints(_, _, _, _, _)
scan_endpoints(http_endpoints, i, name, http_endpoint, http_method) ==
    IF i > Len(http_endpoints)
    THEN [found |-> FALSE, http_endpoint |-> http_endpoint, http_method |-> http_method]
    ELSE LET r == scan_methods(http_endpoints[i].methods, 1, name, http_method) IN
         IF r.found
         THEN [found |-> TRUE, http_endpoint |-> http_endpoints[i].endpoint,
               http_method |-> r.http_method]
         ELSE scan_endpoints(http_endpoints, i + 1, name,
                             http_endpoints[i].endpoint, r.http_method)

_retrieve_http_request_values(tools, tool_call_function_name) ==
    scan_endpoints(tools, 1, tool_call_function_name, None, None)

\* execute_call_from_tools: the HTTP request made ("None" when none is) and
\* the response dict ({} is <<>>)
execute_call_from_tools(tools, tool_call) ==
    LET v == _retrieve_http_request_values(tools, tool_call.name) IN
    IF v.http_endpoint # None /\ v.http_method \in {"get", "post"}
    THEN [request |-> <<v.http_method, v.http_endpoint>>,
          response |-> <<"response of", v.http_endpoint>>]
    ELSE [request |-> <<>>, response |-> <<>>]

\* the tools branch of _complete after a first completion that asks for
\* tool_calls: the tool-role messages appended to oai_messages and the HTTP
\* requests made, in order
_complete_tool_calls(tools, tool_calls) ==
    [tool_messages |->
        [i \in 1..Len(tool_calls) |->
            [role |-> "tool", tool_call_id |-> tool_calls[i].id,
             name |-> tool_calls[i].name,
             content |-> execute_call_from_tools(tools, tool_calls[i]).response]],
     requests |->
        [i \in 1..Len(tool_calls) |->
            execute_call_from_tools(tools, tool_calls[i]).request]]

CompleteWithTools ==
    /\ call = NoClientCall
    /\ \E tools \in ToolTables, n \in 0..MaxToolCalls :
         \E names \in [1..n -> ToolNames] :
            LET tool_calls == [i \in 1..n |-> [id |-> i, name |-> names[i]]]
            IN  call' = [op |-> "tools", tools |-> tools, tool_calls |-> tool_calls,
                         result |-> _complete_tool_calls(tools, tool_calls)]
    /\ UNCHANGED <<agent_vos, proxy, topics, cache, pending, alive, clock, uuids,
                   lastTurn, selection, registry_valid, swarm_started, kafka>>

InitTools == agent_vos = SwarmWithProxy /\ Idle
NextTools == CompleteWithTools
SpecTools == InitTools /\ [][NextTools]_vars

(***************************************************************************)
(* Two orchestrator instances that differ only in the conversation each    *)
(* processed first, routing the same envelope with the same LLM replies.   *)
(***************************************************************************)
\* senders of the conversation an instance processed first; None: no conversation yet
EarlierSenders == {None, "p", "writer"}

\* the envelope of an earlier, already framed conversation from sender
EarlierConversation(sender) ==
    Conversation(Header("u1", ConversationId("u1", 0), sender),
                 << Message(<<"old">>, "user", "u1", None, 1),
                    Message(<<"roles">>, "system", SwarmName, "false", 1) >>)

\* self.proxy of a fresh instance (self.proxy = None) after routing that conversation
proxy_after(sender) ==
    IF sender = None THEN None
    ELSE _process_regular_response_from(None, EarlierConversation(sender),
                                        OneReplyAt(1, "writer"), TRUE, 1).proxy

\* the envelopes both instances are then handed
LaterConversations ==
    { Conversation(Header("u1", ConversationId("u1", 1), s), messages) :
        s \in {"p", "writer"}, messages \in Histories }

NoRouting == [raised |-> FALSE, requestor |-> None, sel |-> NoSelection,
              proxy |-> None, conversation |-> Conversation(NoHeader, <<>>),
              effects |-> <<>>]

EarlierTurns ==
    /\ call = NoClientCall
    /\ \E first, second \in EarlierSenders :
         call' = [op |-> "instances",
                  remembered |-> << proxy_after(first), proxy_after(second) >>,
                  results |-> << NoRouting, NoRouting >>]
    /\ UNCHANGED <<agent_vos, proxy, topics, cache, pending, alive, clock, uuids,
                   lastTurn, selection, registry_valid, swarm_started, kafka>>

RouteOnBoth ==
    /\ call.op = "instances"
    /\ \E conversation \in LaterConversations, replies \in ReplySeqs,
          redis_ok \in BOOLEAN :
         call' = [op |-> "routed", remembered |-> call.remembered,
                  results |-> [i \in 1..2 |->
                      _process_regular_response_from(call.remembered[i], conversation,
                                                     replies, redis_ok, 2)]]
    /\ UNCHANGED <<agent_vos, proxy, topics, cache, pending, alive, clock, uuids,
                   lastTurn, selection, registry_valid, swarm_started, kafka>>

InitIndep == agent_vos = SwarmWithProxy /\ Idle
NextIndep == EarlierTurns \/ RouteOnBoth
SpecIndep == InitIndep /\ [][NextIndep]_vars

(***************************************************************************)
(* registry/agent/main.py: GET /swarms/{identifier} over the YAML files.   *)
(***************************************************************************)
MaxFiles == 2

SwarmIdentifiers == {"s1", "s2"}

\* agent lists of swarm descriptors: a valid one, two Accountable, no Responsible
DescriptorAgents ==
    { SwarmWithProxy,
      << [identifier |-> "p", raci_role |-> "A"],
         [identifier |-> "writer", raci_role |-> "R"],
         [identifier |-> "editor", raci_role |-> "a"] >>,
      << [identifier |-> "p", raci_role |-> "A"] >> }

\* a YAML file: a swarm descriptor, an agent descriptor (no swarm_type), or a
\* file yaml.safe_load fails on
YamlFiles ==
    { [kind |-> "swarm", identifier |-> id, agents |-> agents] :
        id \in SwarmIdentifiers, agents \in DescriptorAgents }
    \cup { [kind |-> "agent", identifier |-> "writer", agents |-> <<>>],
           [kind |-> "broken", identifier |-> "", agents |-> <<>>] }

HTTP_200_OK == 200
HTTP_404_NOT_FOUND == 404
HTTP_422_UNPROCESSABLE_ENTITY == 422

\* the while loop of swarm(): the HTTPException(422) raised inside the try is an
\* Exception, so the except clause logs it and the loop goes on to the next file
RECURSIVE swarm_loop(_, _, _)
swarm_loop(yaml_files, identifier, i) ==
    IF i > Len(yaml_files)
    THEN [status_code |-> HTTP_404_NOT_FOUND, swarm_vo |-> <<>>]
    ELSE LET data_dict == yaml_files[i] IN
         IF data_dict.kind = "swarm" /\ data_dict.identifier = identifier
               /\ _is_valid_swarm_vo_structure(data_dict.agents)
         THEN [status_code |-> HTTP_200_OK, swarm_vo |-> data_dict.agents]
         ELSE swarm_loop(yaml_files, identifier, i + 1)

swarm(yaml_files, identifier) == swarm_loop(yaml_files, identifier, 1)

GetSwarm ==
    /\ call = NoClientCall
    /\ \E n \in 0..MaxFiles, identifier \in SwarmIdentifiers :
         \E yaml_files \in [1..n -> YamlFiles] :
            call' = [op |-> "swarm", yaml_files |-> yaml_files,
                     identifier |-> identifier,
                     result |-> swarm(yaml_files, identifier)]
    /\ UNCHANGED <<agent_vos, proxy, topics, cache, pending, alive, clock, uuids,
                   lastTurn, selection, registry_valid, swarm_started, kafka>>

InitRegistry == agent_vos = SwarmWithProxy /\ Idle
NextRegistry == GetSwarm
SpecRegistry == InitRegistry /\ [][NextRegistry]_vars

(***************************************************************************)
(* agent/raci_agent.py: KafkaHandler._poll_message and poll_messages, over *)
(* everything the consumer may answer.                                     *)
(***************************************************************************)
MaxPolls == 2
MaxRetries == 3

ERROR_UNKNOWN_TOPIC == "UNKNOWN_TOPIC"
ERROR_UNKNOWN_PARTITION == "UNKNOWN_PARTITION"
ERROR_PARTITION_EOF == "PARTITION_EOF"
KafkaErrors ==
    {ERROR_UNKNOWN_TOPIC, ERROR_UNKNOWN_PARTITION, ERROR_PARTITION_EOF, "OTHER"}

\* consumer.poll(1.0): None, a message carrying an error, or a message whose
\* value is absent, a JSON document, or bytes json.loads fails on
NoMessage == [kind |-> "none", error |-> None, value |-> None]
ConsumerAnswers ==
    {NoMessage}
    \cup { [kind |-> "msg", error |-> e, value |-> None] : e \in KafkaErrors }
    \cup { [kind |-> "msg", error |-> None, value |-> v] :
             v \in {None, "json", "malformed"} }

\* the while loop of _poll_message, on the one msg polled before the loop
RECURSIVE poll_loop(_, _, _, _, _)
poll_loop(msg, retries, delay, total_retries, events) ==
    LET again == total_retries + 1
        slept == IF again < retries - 1
                 THEN Append(events, [op |-> "sleep", seconds |-> delay])
                 ELSE events
    IN  IF total_retries < retries
        THEN IF msg.kind = "none"
             THEN [raised |-> FALSE, message |-> None, iterations |-> again,
                   events |-> events]
             ELSE IF msg.error # None
             THEN poll_loop(msg, retries, delay, again, slept)
             ELSE IF msg.value = None
             THEN poll_loop(msg, retries, delay, again, slept)
             ELSE IF msg.value = "malformed"
             THEN [raised |-> TRUE, message |-> None, iterations |-> again,
                   events |-> events]
             ELSE [raised |-> FALSE, message |-> "dict", iterations |-> again,
                   events |-> Append(events, [op |-> "commit", seconds |-> 0])]
        ELSE [raised |-> FALSE, message |-> None, iterations |-> total_retries,
              events |-> events]

\* answers[k] is what the k-th consumer.poll would return
_poll_message(answers, retries, delay) ==
    poll_loop(answers[1], retries, delay, 0, << [op |-> "poll", seconds |-> 1] >>)

\* poll_messages: the decoded message goes to on_response after _poll_message returned
poll_messages(answers, retries, delay) ==
    LET polled == _poll_message(answers, retries, delay) IN
    [polled EXCEPT !.events =
        IF ~ polled.raised /\ polled.message # None
        THEN Append(polled.events, [op |-> "on_response", seconds |-> 0])
        ELSE polled.events]

PollOnce ==
    /\ call = NoClientCall
    /\ \E answers \in [1..MaxPolls -> ConsumerAnswers], retries \in 1..MaxRetries :
         call' = [op |-> "poll", answers |-> answers, retries |-> retries,
                  delay |-> 3, result |-> poll_messages(answers, retries, 3)]
    /\ UNCHANGED <<agent_vos, proxy, topics, cache, pending, alive, clock, uuids,
                   lastTurn, selection, registry_valid, swarm_started, kafka>>

InitPoll == agent_vos = SwarmWithProxy /\ Idle
NextPoll == PollOnce
SpecPoll == InitPoll /\ [][NextPoll]_vars

(***************************************************************************)
(* agent/raci_agent.py: RaciAgent.start of the orchestrator, step by step, *)
(* against the consume thread it spawns and messages arriving on its topic.*)
(***************************************************************************)
\* payloads on the topic: a conversation envelope, or one on_response drops
\* for its null header or null messages
ArrivingPayloads == {"conversation", "no header", "no messages"}

\* before RaciAgent.start: RedisHandler.__init__ left self.r = None
AgentConstructed ==
    [op |-> "start", pc |-> "constructed", r |-> None, thread |-> "not started",
     inbox |-> <<>>, arrived |-> 0, uses |-> <<>>]

\* self.kafka_handler.start(): setup_connection, then the run_kafka thread
KafkaHandlerStart ==
    /\ call.op = "start" /\ call.pc = "constructed"
    /\ \E connected \in BOOLEAN :
         call' = [call EXCEPT !.pc = "kafka started",
                              !.thread = IF connected THEN "polling" ELSE "exited"]
    /\ UNCHANGED <<agent_vos, proxy, topics, cache, pending, alive, clock, uuids,
                   lastTurn, selection, registry_valid, swarm_started, kafka>>

\* self.web_handler.start(): the web server goes to a thread of its own
WebHandlerStart ==
    /\ call.op = "start" /\ call.pc = "kafka started"
    /\ call' = [call EXCEPT !.pc = "web started"]
    /\ UNCHANGED <<agent_vos, proxy, topics, cache, pending, alive, clock, uuids,
                   lastTurn, selection, registry_valid, swarm_started, kafka>>

\* self.redis_handler.start(): _setup_redis assigns self.r
RedisHandlerStart ==
    /\ call.op = "start" /\ call.pc = "web started"
    /\ call' = [call EXCEPT !.pc = "redis started", !.r = "Redis"]
    /\ UNCHANGED <<agent_vos, proxy, topics, cache, pending, alive, clock, uuids,
                   lastTurn, selection, registry_valid, swarm_started, kafka>>

\* a producer publishes to topic-{agent}; the consumer reads from the earliest offset
Arrive ==
    /\ call.op = "start" /\ call.arrived < MaxMsgs
    /\ \E payload \in ArrivingPayloads :
         call' = [call EXCEPT !.inbox = Append(@, payload), !.arrived = @ + 1]
    /\ UNCHANGED <<agent_vos, proxy, topics, cache, pending, alive, clock, uuids,
                   lastTurn, selection, registry_valid, swarm_started, kafka>>

\* one poll_messages of the consume thread: on_response, and for a conversation
\* _process_regular_response calls store_conversation, i.e. self.r.set; with
\* self.r = None that raises AttributeError, which store does not catch
ConsumeTurn ==
    /\ call.op = "start" /\ call.thread = "polling" /\ call.inbox # <<>>
    /\ call' = IF Head(call.inbox) = "conversation"
               THEN [call EXCEPT !.inbox = Tail(@),
                                 !.uses = Append(@, [op |-> "store", r |-> call.r]),
                                 !.thread = IF call.r = None THEN "exited" ELSE @]
               ELSE [call EXCEPT !.inbox = Tail(@)]
    /\ UNCHANGED <<agent_vos, proxy, topics, cache, pending, alive, clock, uuids,
                   lastTurn, selection, registry_valid, swarm_started, kafka>>

InitStart ==
    /\ agent_vos = SwarmWithProxy
    /\ proxy = None
    /\ topics = EmptyQueues
    /\ cache = [k \in {} |-> EmptyDict]
    /\ pending = {}
    /\ alive = [a \in Names |-> TRUE]
    /\ clock = 1
    /\ uuids = 0
    /\ lastTurn = NoTurn
    /\ selection = NoCall
    /\ registry_valid = "unset"
    /\ swarm_started = "unset"
    /\ call = AgentConstructed
    /\ kafka = KafkaHandler_init

NextStart ==
    KafkaHandlerStart \/ WebHandlerStart \/ RedisHandlerStart \/ Arrive \/ ConsumeTurn

SpecStart == InitStart /\ [][NextStart]_vars

(***************************************************************************)
(* POST /reply racing the bus turns of a conversation that the proxy has   *)
(* created and the orchestrator has framed, stored and routed to "writer". *)
(***************************************************************************)
\* POST /conversation of u1, served before the clock's first tick
CreatedTurn == start_conversation("u1", <<"req">>, 1, TRUE, NowDefault)

\* the orchestrator's turn on it: the LLM answers "writer", the store succeeds
FirstRouting ==
    SwarmMaster_process_response(CreatedTurn.conversation, OneReplyAt(1, "writer"),
                                 TRUE, NowDefault)

InitRace ==
    /\ agent_vos = SwarmWithProxy
    /\ proxy = ProxyName
    /\ topics = topics_after(EmptyQueues, << FirstRouting.effects[2] >>)
    /\ cache = cache_after(cache_after([k \in {} |-> EmptyDict], CreatedTurn.effects),
                           FirstRouting.effects)
    /\ pending = {}
    /\ alive = [a \in Names |-> TRUE]
    /\ clock = 1
    /\ uuids = 1
    /\ lastTurn = Processed("orch", SwarmName,
                            to_dict_conversation(CreatedTurn.conversation),
                            FirstRouting.framed, FirstRouting.sel, "n/a", FirstRouting)
    /\ selection = NoCall
    /\ registry_valid = "unset"
    /\ swarm_started = "unset"
    /\ call = NoClientCall
    /\ kafka = KafkaHandler_init

NextRace ==
    \/ OrchestratorTurn
    \/ \E a \in Specialists : SpecialistTurn(a)
    \/ ProxyTurn
    \/ Reply

SpecRace == InitRace /\ [][NextRace]_vars

AgentIdentifiers == {agent_vos[i].identifier : i \in 1..Len(agent_vos)}

KnownReplies(replies) == {i \in 1..Len(replies) : replies[i] \in AgentIdentifiers}

SelectionCalled == selection # NoCall

\* C1: agent selection asks the LLM at most 5 times; when the LLM replies
\* every time, the result is the first reply that is a known agent
\* identifier, found at that attempt, and when all 5 replies are unknown it
\* is the identifier of the agent with role "r"; nothing is raised.
C1_SelectionResult ==
    SelectionCalled =>
        LET replies == selection.replies
            result == selection.result
            known == KnownReplies(replies)
        IN  /\ result.attempts <= 5
            /\ (\A i \in 1..Len(replies) : replies[i] # LLMError) =>
                 /\ ~ result.raised
                 /\ known # {} =>
                      \E i \in known :
                         /\ \A j \in known : i <= j
                         /\ result.next_agent = replies[i]
                         /\ result.attempts = i
                 /\ known = {} =>
                      /\ result.attempts = 5
                      /\ \E j \in 1..Len(agent_vos) :
                            /\ agent_vos[j].raci_role \in {"r", "R"}
                            /\ result.next_agent = agent_vos[j].identifier

\* five unknown replies, and the Responsible agent was returned
C1_FallbackTaken ==
    /\ SelectionCalled
    /\ \A i \in 1..5 : selection.replies[i] \in {"bogus", None}
    /\ selection.result.attempts = 5
    /\ selection.result.next_agent = "writer"

\* C2: with at least two candidates besides the preceding sender, the
\* selected agent is never the preceding sender.
C2_NeverPrecedingSender ==
    ( /\ SelectionCalled
      /\ ~ selection.result.raised
      /\ Cardinality(AgentIdentifiers \ {selection.previous_agent}) >= 2 )
    => selection.result.next_agent # selection.previous_agent

LastOf(messages) == messages[Len(messages)]

\* the most recent handler run was a routing turn of the orchestrator that
\* returned normally
OrchRouted == lastTurn.kind = "orch" /\ lastTurn.outcome = "ok"

RoutedKey ==
    Key(lastTurn.conversation.header.user_id,
        lastTurn.conversation.header.conversation_id)

\* C3: after a routing turn the tail's pending_user_reply is "true" exactly
\* when the selected agent is the remembered proxy and the tail's role is not
\* "user"; otherwise it is the value the tail arrived with (the framing
\* message arrives with "false").
C3_PendingFlag ==
    OrchRouted =>
        LET tail == LastOf(lastTurn.conversation.messages)
            arrived == IF lastTurn.framed THEN "false"
                       ELSE LastOf(lastTurn.received.messages).pending_user_reply
        IN  tail.pending_user_reply =
               IF lastTurn.sel.next_agent = proxy /\ tail.role # "user"
               THEN "true" ELSE arrived

\* the proxy was selected while the tail was the user's: not marked
C3_ProxySelectedOnUserTail ==
    /\ OrchRouted
    /\ lastTurn.sel.next_agent = proxy
    /\ LastOf(lastTurn.conversation.messages).role = "user"
    /\ LastOf(lastTurn.conversation.messages).pending_user_reply # "true"

InFlight(conversation_id) ==
    \E a \in DOMAIN topics : \E i \in 1..Len(topics[a]) :
        /\ topics[a][i].hkind = "val"
        /\ topics[a][i].header.conversation_id = conversation_id

C5_PersistedBeforePublished ==
    OrchRouted =>
        /\ Len(lastTurn.effects) = 2
        /\ lastTurn.effects[1].op = "store"
        /\ lastTurn.effects[2].op = "publish"
        /\ RoutedKey \in DOMAIN cache
        /\ cache[RoutedKey] = lastTurn.effects[2].env

\* C5 amended: a routing turn first calls store, under
\* {user_id}:{conversation_id} and with the envelope it then publishes to the
\* selected agent's topic (sender = the orchestrator); when that store
\* succeeds the cache holds the published envelope.
C5_StoreCalledBeforePublish ==
    OrchRouted =>
        /\ Len(lastTurn.effects) = 2
        /\ lastTurn.effects[1].op = "store"
        /\ lastTurn.effects[1].target = RoutedKey
        /\ lastTurn.effects[2].op = "publish"
        /\ lastTurn.effects[2].target = Topic(lastTurn.sel.next_agent)
        /\ lastTurn.effects[1].env = lastTurn.effects[2].env
        /\ lastTurn.effects[2].env = lastTurn.conversation
        /\ lastTurn.effects[2].env.header.sender = SwarmName
        /\ lastTurn.effects[1].ok =>
             /\ RoutedKey \in DOMAIN cache
             /\ cache[RoutedKey] = lastTurn.effects[2].env

\* a routing turn whose store succeeded
C5_StoredAndPublished ==
    /\ OrchRouted
    /\ lastTurn.effects[1].ok
    /\ cache[RoutedKey] = lastTurn.effects[2].env
    /\ lastTurn.effects[2].env \in
         { topics[lastTurn.sel.next_agent][i] :
             i \in 1..Len(topics[lastTurn.sel.next_agent]) }

OrchProcessed == lastTurn.kind = "orch" /\ on_response(lastTurn.received) = "process"

\* C6: the orchestrator appends one system message, named after itself and
\* listing every agent identifier, exactly when the conversation it received
\* has no message or a single message of role "user"; the received messages
\* stay in front, and in every case the selection protocol is run.
C6_FramingRule ==
    OrchProcessed =>
        LET rec == lastTurn.received.messages
            fin == lastTurn.conversation.messages
            frame == Len(rec) = 0 \/ (Len(rec) = 1 /\ rec[1].role = "user")
        IN  /\ Len(fin) = Len(rec) + (IF frame THEN 1 ELSE 0)
            /\ \A i \in 1..Len(rec) :
                  /\ i <= Len(fin)
                  /\ fin[i].content = rec[i].content
                  /\ fin[i].role = rec[i].role
                  /\ fin[i].name = rec[i].name
            /\ frame =>
                  /\ LastOf(fin).role = "system"
                  /\ LastOf(fin).name = SwarmName
                  /\ \A id \in AgentIdentifiers :
                        \E j \in 1..Len(LastOf(fin).content) : LastOf(fin).content[j] = id
            /\ lastTurn.framed = frame
            /\ lastTurn.sel.attempts >= 1

\* a single user message was framed and routed
C6_SingleUserMessageFramed ==
    /\ OrchProcessed
    /\ Len(lastTurn.received.messages) = 1
    /\ Len(lastTurn.conversation.messages) = 2
    /\ lastTurn.conversation.messages[2].role = "system"
    /\ lastTurn.outcome = "ok"

WithRole(codes) == {i \in 1..Len(agent_vos) : agent_vos[i].raci_role \in codes}

ExactlyOneOfEach ==
    /\ Cardinality(WithRole({"a", "A"})) = 1
    /\ Cardinality(WithRole({"r", "R"})) = 1

\* C7: the registry validator reports a swarm valid, and the orchestrator's
\* construction succeeds, exactly when the agent list has one agent of role
\* "a" and one of role "r", in either case of the letter.
C7_SwarmAccepted ==
    /\ registry_valid # "unset" => (registry_valid = "valid" <=> ExactlyOneOfEach)
    /\ swarm_started # "unset" => (swarm_started = "started" <=> ExactlyOneOfEach)

\* two Accountable agents written in different case: rejected by both
C7_TwoAccountableRejected ==
    /\ Cardinality(WithRole({"a"})) = 1
    /\ Cardinality(WithRole({"A"})) = 1
    /\ Cardinality(WithRole({"r", "R"})) = 1
    /\ registry_valid = "invalid"
    /\ swarm_started = "failed"

SpecProcessed == lastTurn.kind = "spec" /\ on_response(lastTurn.received) = "process"

PublishedOnceTo(agent_identifier) ==
    /\ Len(lastTurn.effects) = 1
    /\ lastTurn.effects[1].op = "publish"
    /\ lastTurn.effects[1].target = Topic(agent_identifier)
    /\ lastTurn.effects[1].env = lastTurn.conversation

\* C8: when the completion call yields no completion object the specialist
\* still appends an assistant message, with empty content, forwards the
\* conversation to its caller, and its consume loop goes on.
C8_DegradesToEmptyReply ==
    (SpecProcessed /\ lastTurn.completion = "None") =>
        LET rec == lastTurn.received.messages
            fin == lastTurn.conversation.messages
        IN  /\ lastTurn.outcome = "ok"
            /\ alive[lastTurn.agent]
            /\ Len(fin) = Len(rec) + 1
            /\ LastOf(fin).role = "assistant"
            /\ LastOf(fin).content = <<>>
            /\ PublishedOnceTo(lastTurn.received.header.sender)

\* C9: a specialist turn appends one assistant message named after the
\* specialist, sets header.sender to the specialist and publishes the
\* conversation once, to the topic of the sender it arrived with.
C9_SpecialistTurn ==
    SpecProcessed =>
        LET rec == lastTurn.received.messages
            fin == lastTurn.conversation.messages
        IN  /\ Len(fin) = Len(rec) + 1
            /\ \A i \in 1..Len(rec) : fin[i] = rec[i]
            /\ LastOf(fin).role = "assistant"
            /\ LastOf(fin).name = lastTurn.agent
            /\ lastTurn.conversation.header.sender = lastTurn.agent
            /\ PublishedOnceTo(lastTurn.received.header.sender)

\* C10: an envelope without header or without messages is dropped: nothing is
\* processed, stored or published, no exception leaves the handler and the
\* consume loop of the agent goes on.
C10_MalformedDropped ==
    ( /\ lastTurn.kind \in {"orch", "spec", "proxy"}
      /\ (lastTurn.received.hkind # "val" \/ lastTurn.received.mkind # "val") )
    => /\ lastTurn.outcome = "dropped"
       /\ lastTurn.effects = <<>>
       /\ alive[lastTurn.agent]

\* C11: retrieve never raises and returns the empty result for a key that is
\* not in the store and for every failure of the store; store never raises,
\* and on a failure it reports 0 fields added and leaves the store as it was.
C11_CacheNeverRaises ==
    /\ call.op = "retrieve" =>
          /\ ~ call.result.raised
          /\ (call.fault # "none" \/ call.key \notin DOMAIN call.before)
                => call.result.value = EmptyDict
    /\ call.op = "store" =>
          /\ ~ call.result.raised
          /\ call.fault # "none" =>
                /\ call.result.added_fields = 0
                /\ cache = call.before

\* a key that is in the store, retrieved while Redis fails: the empty result
C11_FailedRetrieveOfStoredKey ==
    /\ call.op = "retrieve"
    /\ call.fault = "RedisError"
    /\ call.key \in DOMAIN call.before
    /\ call.result.value = EmptyDict
    /\ ~ call.result.raised

\* C12: a Conversation serialized with to_dict_conversation and read back with
\* to_conversation_from_dict has the same header and the same messages, in
\* number, order and every field, the unset pending_user_reply included.
C12_RoundTrip ==
    call.op = "roundtrip" =>
        LET c == call.conversation
            b == call.back
        IN  /\ b.header.user_id = c.header.user_id
            /\ b.header.conversation_id = c.header.conversation_id
            /\ b.header.sender = c.header.sender
            /\ Len(b.messages) = Len(c.messages)
            /\ \A i \in 1..Len(c.messages) :
                  /\ b.messages[i].content = c.messages[i].content
                  /\ b.messages[i].role = c.messages[i].role
                  /\ b.messages[i].name = c.messages[i].name
                  /\ b.messages[i].pending_user_reply = c.messages[i].pending_user_reply
                  /\ b.messages[i].datetime_value = c.messages[i].datetime_value

\* two messages went through, one named and marked, one with neither set
C12_UnsetFieldsRoundTripped ==
    /\ call.op = "roundtrip"
    /\ Len(call.back.messages) = 2
    /\ call.conversation.messages[1].name = "writer"
    /\ call.conversation.messages[1].pending_user_reply = "true"
    /\ call.conversation.messages[2].name = None
    /\ call.conversation.messages[2].pending_user_reply = None
    /\ call.back.messages = call.conversation.messages

\* C13: a terminal error of the completion API ends the completion call at
\* once: the attempt that met it is the last one, whatever the number of
\* attempts before it, and the call returns no completion object.
C13_TerminalErrorStops ==
    call.op = "completion" =>
        \A k \in 1..max_retries :
            (call.outcomes[k] = "terminal" /\ call.result.calls >= k)
            => /\ call.result.calls = k
               /\ ~ call.result.response

\* a terminal error on the third attempt, after two transient failures
C13_TerminalAfterTransients ==
    /\ call.op = "completion"
    /\ call.outcomes[1] = "transient"
    /\ call.outcomes[2] = "transient"
    /\ call.outcomes[3] = "terminal"
    /\ call.outcomes[4] = "ok"
    /\ call.result.calls = 3
    /\ ~ call.result.response

\* C14: the completion call makes at most max_retries attempts, goes on
\* after every transient failure up to that cap, stops at the first success,
\* and waits base_wait_time * k after the k-th transient failure.
C14_BoundedRetryLinearBackoff ==
    call.op = "completion" =>
        LET r == call.result
            made == 1..r.calls
        IN  /\ r.calls >= 1
            /\ r.calls <= max_retries
            /\ r.response <=> call.outcomes[r.calls] = "ok"
            /\ \A j \in made : j < r.calls => call.outcomes[j] = "transient"
            /\ (\A j \in made : call.outcomes[j] = "transient") => r.calls = max_retries
            /\ Len(r.waits) = Cardinality({j \in made : call.outcomes[j] = "transient"})
            /\ \A k \in 1..Len(r.waits) : r.waits[k] = base_wait_time * k

\* two transient failures, waits of 5 and 10 seconds, then a success
C14_SuccessOnThirdAttempt ==
    /\ call.op = "completion"
    /\ call.result.response
    /\ call.result.calls = 3
    /\ call.result.waits = <<base_wait_time, 2 * base_wait_time>>

\* C15: a failure to connect (the first attempt included), a poll failure or
\* any other exception on the consumer side never ends the consume loop:
\* once the handler is started its thread keeps polling, and after the
\* failure the consumer and the producer are new, the topic is ensured again
\* and the consumer is subscribed.
C15_LoopNeverExits ==
    /\ kafka.thread # "not started" => kafka.thread = "polling"
    /\ kafka.last \in {"connect failed", "reconnect failed", "reconnected", "Exception"}
          => /\ kafka.running
             /\ kafka.subscribed
             /\ kafka.consumer >= 1
             /\ kafka.producer = kafka.consumer
             /\ kafka.topic_ensured = kafka.consumer

\* is name the function name of an entry of the tools table
InToolsTable(tools, name) ==
    \E i \in 1..Len(tools) : \E j \in 1..Len(tools[i].methods) :
        \E k \in 1..Len(tools[i].methods[j].tools) : tools[i].methods[j].tools[k] = name

\* C16: a tool call whose name is in the tools table contributes exactly one
\* tool-role message to the follow-up completion input, and a tool call whose
\* name is not in the table contributes none and makes no HTTP request.
C16_UnmatchedToolCallContributesNothing ==
    call.op = "tools" =>
        \A i \in 1..Len(call.tool_calls) :
            LET mine == { j \in 1..Len(call.result.tool_messages) :
                            call.result.tool_messages[j].tool_call_id = call.tool_calls[i].id }
            IN  IF InToolsTable(call.tools, call.tool_calls[i].name)
                THEN Cardinality(mine) = 1
                ELSE Cardinality(mine) = 0 /\ call.result.requests[i] = <<>>

\* the most recent handler run was a hop: it forwarded a conversation
Hop ==
    /\ lastTurn.kind \in {"start", "reply", "orch", "spec"}
    /\ lastTurn.outcome = "ok"

StoresOf(effects) ==
    {i \in 1..Len(effects) : effects[i].op = "store" /\ effects[i].target.kind = "conv"}

\* C17 as stated: after every hop (proxy creation, proxy reply, orchestrator
\* routing, specialist reply) the cache value under
\* {user_id}:{conversation_id} is the conversation the hop forwarded.
C17_PersistedAfterEveryHop ==
    Hop => /\ RoutedKey \in DOMAIN cache
           /\ cache[RoutedKey] = lastTurn.conversation

\* C17 amended: proxy creation and orchestrator routing call store with the
\* conversation they forward, and the cache value under its key is that
\* conversation when the store succeeds; a proxy reply and a specialist reply
\* store nothing; and no step removes a key from the cache.
C17_PersistedByCreationAndRouting ==
    /\ [](Hop =>
            IF lastTurn.kind \in {"start", "orch"}
            THEN /\ Cardinality(StoresOf(lastTurn.effects)) = 1
                 /\ \A i \in StoresOf(lastTurn.effects) :
                       /\ lastTurn.effects[i].target = RoutedKey
                       /\ lastTurn.effects[i].env = lastTurn.conversation
                       /\ lastTurn.effects[i].ok =>
                             /\ RoutedKey \in DOMAIN cache
                             /\ cache[RoutedKey] = lastTurn.conversation
            ELSE StoresOf(lastTurn.effects) = {})
    /\ [][DOMAIN cache \subseteq DOMAIN cache']_vars

\* the orchestrator persisted a conversation that holds a specialist's reply
C17_SpecialistReplyPersistedByRouting ==
    /\ OrchRouted
    /\ lastTurn.effects[1].ok
    /\ cache[RoutedKey] = lastTurn.conversation
    /\ \E i \in 1..Len(lastTurn.conversation.messages) :
          /\ lastTurn.conversation.messages[i].role = "assistant"
          /\ lastTurn.conversation.messages[i].name = "writer"

\* C18: every envelope a hop publishes carries in header.sender the
\* identifier of the agent that published it: the proxy on start and on
\* reply, the orchestrator on routing, the specialist on its reply.
C18_SenderIsForwarder ==
    Hop => \A i \in 1..Len(lastTurn.effects) :
              lastTurn.effects[i].op = "publish"
                 => /\ lastTurn.effects[i].env.hkind = "val"
                    /\ lastTurn.effects[i].env.header.sender = lastTurn.agent

\* C19: the messages a hop forwards start with the messages it received, in
\* the same order and unchanged, followed by at most one new message; the one
\* exception is the tail the orchestrator received when it appends nothing,
\* of which only pending_user_reply and datetime_value may differ.
C19_AppendOnly ==
    Hop =>
        LET rec == lastTurn.received.messages
            fin == lastTurn.conversation.messages
            n == Len(rec)
        IN  /\ Len(fin) \in {n, n + 1}
            /\ \A i \in 1..n :
                  IF lastTurn.kind = "orch" /\ i = n /\ Len(fin) = n
                  THEN fin[i] = [rec[i] EXCEPT
                                    !.pending_user_reply = fin[i].pending_user_reply,
                                    !.datetime_value = fin[i].datetime_value]
                  ELSE fin[i] = rec[i]

\* the orchestrator marked and re-dated the specialist's reply it received and
\* left the messages before it alone
C19_TailRewrittenByRouting ==
    /\ OrchRouted
    /\ ~ lastTurn.framed
    /\ Len(lastTurn.received.messages) >= 3
    /\ LastOf(lastTurn.received.messages).role = "assistant"
    /\ LastOf(lastTurn.received.messages).pending_user_reply = "false"
    /\ LastOf(lastTurn.conversation.messages).pending_user_reply = "true"
    /\ LastOf(lastTurn.conversation.messages).datetime_value
          # LastOf(lastTurn.received.messages).datetime_value

\* the conversations POST /conversation can have started
StartedIds == {ConversationId(u, n) : u \in Users, n \in 1..MaxConvs}

\* the number of envelopes of a conversation on the topics t
InFlightCount(t, conversation_id) ==
    Cardinality({ p \in UNION { {<<a, i>> : i \in 1..Len(t[a])} : a \in DOMAIN t } :
                    /\ t[p[1]][p[2]].hkind = "val"
                    /\ t[p[1]][p[2]].header.conversation_id = conversation_id })

\* C20 as stated: whatever the interleaving of bus deliveries, POST
\* /conversation and POST /reply, a conversation never has more than one
\* envelope in flight.
C20_AtMostOneInFlight ==
    \A cid \in StartedIds : InFlightCount(topics, cid) <= 1

\* C20 amended: a turn of an agent on an envelope it consumed from the bus
\* (orchestrator, specialist or proxy) never increases the number of
\* envelopes in flight of any conversation; POST /conversation and POST
\* /reply each add one whenever they are called.
C20_BusTurnsAddNoEnvelope ==
    [][ (lastTurn' # lastTurn /\ lastTurn'.kind \in {"orch", "spec", "proxy"})
           => \A cid \in StartedIds :
                 InFlightCount(topics', cid) <= InFlightCount(topics, cid) ]_vars

\* a specialist consumed the one envelope of a conversation and handed one on
C20_HandedOn ==
    /\ lastTurn.kind = "spec"
    /\ lastTurn.outcome = "ok"
    /\ lastTurn.received.header.conversation_id \in StartedIds
    /\ InFlightCount(topics, lastTurn.received.header.conversation_id) = 1

\* what a routing turn does to the conversation it is handed: the selection,
\* the envelope it stores and forwards, and the calls it makes
Handling(r) ==
    [raised |-> r.raised, sel |-> r.sel, conversation |-> r.conversation,
     effects |-> r.effects]

\* C21: the orchestrator's handling of a conversation (the agent selected, the
\* marking of the tail, what is stored and forwarded) depends only on the
\* envelope and the LLM replies, not on the conversations the instance
\* processed before: two instances with different histories handle the same
\* envelope and replies alike.
C21_HandlingIndependentOfHistory ==
    call.op = "routed" => Handling(call.results[1]) = Handling(call.results[2])

\* the files describing the swarm asked for
Describing(yaml_files, identifier) ==
    { i \in 1..Len(yaml_files) :
        yaml_files[i].kind = "swarm" /\ yaml_files[i].identifier = identifier }

\* C22: GET /swarms/{identifier} answers 404 when no file describes the swarm,
\* 422 when the swarm exists but its structure is invalid, and otherwise
\* returns the swarm.
C22_SwarmStatus ==
    call.op = "swarm" =>
        LET found == Describing(call.yaml_files, call.identifier) IN
        /\ found = {} => call.result.status_code = HTTP_404_NOT_FOUND
        /\ \A i \in found :
              Cardinality(found) = 1 =>
                 IF _is_valid_swarm_vo_structure(call.yaml_files[i].agents)
                 THEN /\ call.result.status_code = HTTP_200_OK
                      /\ call.result.swarm_vo = call.yaml_files[i].agents
                 ELSE call.result.status_code = HTTP_422_UNPROCESSABLE_ENTITY

Started == lastTurn.kind = "start" /\ lastTurn.outcome = "ok"

\* how many envelopes equal to env wait on the topic of agent a
Occurrences(a, env) == Cardinality({i \in 1..Len(topics[a]) : topics[a][i] = env})

\* the conversation POST /conversation builds: header (user, {user}_{uuid},
\* proxy) and exactly one user message carrying the request text
StartedConversationShape ==
    LET h == lastTurn.conversation.header
        m == lastTurn.conversation.messages
    IN  /\ h.user_id \in Users
        /\ h.conversation_id = ConversationId(h.user_id, uuids)
        /\ h.sender = ProxyName
        /\ Len(m) = 1
        /\ m[1].role = "user"
        /\ m[1].content = <<"req">>
        /\ m[1].name = h.user_id

\* C23 as stated: POST /conversation builds that conversation, the cache then
\* holds it under {user_id}:{conversation_id}, and it is published exactly
\* once, to topic-{swarm}.
C23_StoredThenPublishedOnce ==
    Started =>
        /\ StartedConversationShape
        /\ RoutedKey \in DOMAIN cache
        /\ cache[RoutedKey] = lastTurn.conversation
        /\ Occurrences(SwarmName, lastTurn.conversation) = 1

\* C23 amended: POST /conversation builds that conversation, calls store with
\* it under {user_id}:{conversation_id} and then publishes it exactly once, to
\* topic-{swarm} and to no other topic; the cache holds it when the store
\* succeeds, and it is published all the same when the store fails.
C23_StoreCalledThenPublishedOnce ==
    Started =>
        /\ StartedConversationShape
        /\ Len(lastTurn.effects) = 2
        /\ lastTurn.effects[1].op = "store"
        /\ lastTurn.effects[1].target = RoutedKey
        /\ lastTurn.effects[1].env = lastTurn.conversation
        /\ lastTurn.effects[2].op = "publish"
        /\ lastTurn.effects[2].target = Topic(SwarmName)
        /\ lastTurn.effects[2].env = lastTurn.conversation
        /\ lastTurn.effects[1].ok =>
              /\ RoutedKey \in DOMAIN cache
              /\ cache[RoutedKey] = lastTurn.conversation
        /\ Occurrences(SwarmName, lastTurn.conversation) = 1
        /\ \A a \in DOMAIN topics \ {SwarmName} :
              Occurrences(a, lastTurn.conversation) = 0

\* a conversation was created while the cache refused the write: published,
\* not stored
C23_PublishedWithoutStore ==
    /\ Started
    /\ ~ lastTurn.effects[1].ok
    /\ RoutedKey \notin DOMAIN cache
    /\ Occurrences(SwarmName, lastTurn.conversation) = 1

\* the identifiers a selection prompt offers
Offered(prompt) == {prompt[i] : i \in 2..Len(prompt)}

FirstPool == AgentIdentifiers \ {selection.previous_agent}

Spoken == {selection.messages[i].name : i \in 1..Len(selection.messages)}

\* C24: the prompt of attempt 1 offers every agent identifier except the
\* preceding sender; the prompt of each later attempt offers that pool minus
\* every identifier that is the name of a message of the history, each
\* identifier once; so a later pool is a subset of the first and holds neither
\* the preceding sender nor an agent that has spoken.
C24_CandidatePools ==
    SelectionCalled =>
        LET prompts == selection.result.prompts IN
        \A k \in 1..Len(prompts) :
            /\ prompts[k][1] = "select"
            /\ Cardinality(Offered(prompts[k])) = Len(prompts[k]) - 1
            /\ Offered(prompts[k]) = IF k = 1 THEN FirstPool ELSE FirstPool \ Spoken
            /\ Offered(prompts[k]) \subseteq Offered(prompts[1])
            /\ selection.previous_agent \notin Offered(prompts[k])
            /\ k > 1 => Offered(prompts[k]) \cap Spoken = {}

\* a retry whose pool lost the agent that had spoken
C24_PoolNarrowedOnRetry ==
    /\ SelectionCalled
    /\ selection.previous_agent = "p"
    /\ Len(selection.result.prompts) >= 2
    /\ Offered(selection.result.prompts[1]) = {"writer", "editor"}
    /\ Offered(selection.result.prompts[2]) = {"editor"}

\* the positions of the events op in a sequence of events
EventsOf(events, op) == {i \in 1..Len(events) : events[i].op = op}

\* C25: a decoded message is committed only after it was handed to
\* on_response: no commit comes before the hand-over of its message.
C25_CommitAfterHandOver ==
    call.op = "poll" =>
        \A c \in EventsOf(call.result.events, "commit") :
            \E h \in EventsOf(call.result.events, "on_response") : h < c

\* C28: when the consumer returns no message _poll_message polls again, up to
\* retries attempts with delay seconds between attempts, before it returns no
\* message; it ends within retries attempts whatever the consumer answers, and
\* returns a decoded message only when the message carried no error.
C28_PollsAgainOnNoMessage ==
    call.op = "poll" =>
        LET result == call.result
            polls == EventsOf(result.events, "poll")
            sleeps == EventsOf(result.events, "sleep")
        IN  /\ result.iterations <= call.retries
            /\ result.message # None =>
                  \E k \in 1..Len(call.answers) :
                     call.answers[k].kind = "msg" /\ call.answers[k].error = None
            /\ (call.answers[1] = NoMessage /\ call.retries >= 2) =>
                  /\ Cardinality(polls) >= 2
                  /\ \E s \in sleeps :
                        /\ result.events[s].seconds = call.delay
                        /\ \E p, q \in polls : p < s /\ s < q

\* C26: POST /reply for a key the cache does not hold (retrieve returns the
\* empty result) is served as not-found: the handler completes without
\* raising and publishes nothing.
C26_EmptyResultIsNotFound ==
    (lastTurn.kind = "reply" /\ lastTurn.received = EmptyDict) =>
        /\ lastTurn.outcome # "raised"
        /\ lastTurn.effects = <<>>

\* C27: the lookup of a tool name returns the endpoint and method of a table
\* entry that lists the name, and (None, None) when no entry does; for such a
\* name execute_call_from_tools makes no HTTP request and returns the empty
\* result.
C27_LookupOfUnknownToolIsEmpty ==
    call.op = "tools" =>
        \A i \in 1..Len(call.tool_calls) :
            LET name == call.tool_calls[i].name
                v == _retrieve_http_request_values(call.tools, name)
                executed == execute_call_from_tools(call.tools, call.tool_calls[i])
            IN  IF InToolsTable(call.tools, name)
                THEN \E e \in 1..Len(call.tools) :
                        \E m \in 1..Len(call.tools[e].methods) :
                           /\ v.http_endpoint = call.tools[e].endpoint
                           /\ v.http_method = call.tools[e].methods[m].method
                           /\ \E k \in 1..Len(call.tools[e].methods[m].tools) :
                                 call.tools[e].methods[m].tools[k] = name
                ELSE /\ v.http_endpoint = None
                     /\ v.http_method = None
                     /\ executed.request = <<>>
                     /\ executed.response = <<>>
                     /\ call.result.requests[i] = <<>>

\* C29: whenever the consume thread calls store or retrieve on the cache
\* client, the connection has been set up: no use of the client finds
\* self.r unset.
C29_CacheConnectedWhenUsed ==
    call.op = "start" =>
        \A i \in 1..Len(call.uses) : call.uses[i].r # None

\* new starts with old, of whose tail only pending_user_reply and
\* datetime_value may differ
ExtendsModuloTail(old, new) ==
    /\ Len(new) >= Len(old)
    /\ \A i \in 1..Len(old) :
          IF i = Len(old)
          THEN new[i] = [old[i] EXCEPT !.pending_user_reply = new[i].pending_user_reply,
                                       !.datetime_value = new[i].datetime_value]
          ELSE new[i] = old[i]

\* C30 as stated: the cached conversation is append-only per key: every value
\* written under a key has the messages of the value it replaces as a prefix
\* (up to the tail's pending_user_reply and timestamp), whatever the
\* interleaving of routing turns and POST /reply.
C30_CacheAppendOnly ==
    [][\A k \in DOMAIN cache :
          /\ k \in DOMAIN cache'
          /\ ExtendsModuloTail(cache[k].messages, cache'[k].messages)]_vars

\* C30 amended: a value under a conversation key is written only by a routing
\* turn (or by POST /conversation), never by POST /reply, and its messages
\* have as a prefix (up to the tail's pending_user_reply and timestamp) the
\* messages of the envelope that turn consumed, not necessarily those of the
\* value it replaces; no key is removed.
C30_WritesExtendConsumedEnvelope ==
    [][/\ DOMAIN cache \subseteq DOMAIN cache'
       /\ \A k \in DOMAIN cache' :
             (k \notin DOMAIN cache \/ cache'[k] # cache[k]) =>
                /\ lastTurn'.kind \in {"start", "orch"}
                /\ lastTurn'.outcome = "ok"
                /\ k = Key(lastTurn'.conversation.header.user_id,
                           lastTurn'.conversation.header.conversation_id)
                /\ cache'[k] = lastTurn'.conversation
                /\ ExtendsModuloTail(lastTurn'.received.messages,
                                     cache'[k].messages)]_vars

\* the cache holds the specialist's reply while the envelope of a POST /reply
\* that lacks it waits at the orchestrator, whose turn will overwrite the value
C30_StaleEnvelopeAtOrchestrator ==
    /\ topics[SwarmName] # <<>>
    /\ Head(topics[SwarmName]).hkind = "val"
    /\ LET waiting == Head(topics[SwarmName])
           k == Key(waiting.header.user_id, waiting.header.conversation_id)
       IN  /\ k \in DOMAIN cache
           /\ \E i \in 1..Len(cache[k].messages) : cache[k].messages[i].role = "assistant"
           /\ LastOf(waiting.messages).role = "user"
           /\ waiting.header.sender = "u1"
           /\ ~ ExtendsModuloTail(cache[k].messages, waiting.messages)

====
